---- MODULE Spec2Model ----
(***************************************************************************)
(* Model of mtfc-generator/auto_iteration_system.py: the score extractor   *)
(* extract_scores and the iteration loop of main.                          *)
(*                                                                         *)
(* A model reply is a sequence of lexical tokens.  The regular expressions *)
(* of extract_scores are matched on that sequence, token by token, with    *)
(* re.search's leftmost-match rule.  Numbers are whole numbers; a weighted *)
(* total is kept in hundredths (Scale), so that score * weight is exact.   *)
(*                                                                         *)
(* The loops of self_improving_loop.py, run_iteration_with_initial_script.py, *)
(* supreme_builder.py and src/improver.py are modelled on the same         *)
(* variables, each with its own initial predicate and next-state relation. *)
(***************************************************************************)
EXTENDS Integers, Sequences, FiniteSets, TLC

VARIABLES
    response,        \* the reply text: extract_scores' argument, main's response
    scores,          \* scores, as returned by extract_scores and held by main
    given,           \* the layout the reply text was written from
    xpc,             \* extract_scores alone: "input", "scored", "totalled", "done"
    found,           \* extract_scores alone: the scores dict before the zero fill
    scanned,         \* extract_scores alone: total after the total patterns
    total,           \* extract_scores alone: the returned total (hundredths)
    pc,              \* main: the statement main is at
    iteration,       \* main: iteration
    overall,         \* main: overall (hundredths)
    all_iterations,  \* main: all_iterations
    prompt,          \* main: prompt
    files,           \* SAVE_DIR: iteration number -> content of iteration_N.json
    summary,         \* SAVE_DIR: the summary.json documents written, in order
    requests,        \* completion requests issued so far
    outcome,         \* the ways the loop was left, in order
    error,           \* the exceptions raised, in order
    printed          \* the error and final status lines printed

vars == <<response, scores, given, xpc, found, scanned, total, pc, iteration,
          overall, all_iterations, prompt, files, summary, requests, outcome,
          error, printed>>

extractVars == <<given, xpc, found, scanned, total>>
mainVars == <<pc, iteration, overall, all_iterations, prompt, files, summary,
              requests, outcome, error, printed>>

----------------------------------------------------------------------------
(* RUBRIC *)

Cats == 1..6

CatName(k) ==
    CASE k = 1 -> "Project Definition"
      [] k = 2 -> "Data Identification & Assessment"
      [] k = 3 -> "Mathematical Modeling"
      [] k = 4 -> "Risk Analysis"
      [] k = 5 -> "Recommendations"
      [] k = 6 -> "Communication & Clarity"

\* RUBRIC weights, in hundredths
Scale == 100

RUBRIC == <<15, 20, 25, 20, 15, 5>>

\* the keys that contain " & "
HasAmp(k) == k \in {2, 6}

----------------------------------------------------------------------------
(* Tokens of a reply *)

NL == <<"NL">>
COLON == <<"COLON">>
DASH == <<"DASH">>
EQ == <<"EQ">>
HDR == <<"HDR">>
WORD == <<"WORD">>
Key(k, form) == <<"KEY", k, form>>
Num(n) == <<"NUM", n>>
Tot(s) == <<"TOT", s>>

IsNum(txt, i) == i >= 1 /\ i <= Len(txt) /\ txt[i][1] = "NUM"

\* The spelling of key k written in a given form.  A key without " & " has one
\* spelling up to case; with re.IGNORECASE case never matters.
Spelling(k, form) ==
    IF HasAmp(k) /\ form \in {"and", "dropped"} THEN form ELSE "key"

\* key_variations[v]
KeyVariation(k, v) ==
    CASE v = 1 -> Spelling(k, "exact")
      [] v = 2 -> Spelling(k, "lower")
      [] v = 3 -> Spelling(k, "and")
      [] v = 4 -> Spelling(k, "dropped")

IsKey(txt, i, k, v) ==
    /\ i >= 1 /\ i <= Len(txt)
    /\ txt[i][1] = "KEY"
    /\ txt[i][2] = k
    /\ Spelling(k, txt[i][3]) = KeyVariation(k, v)

\* \s* from position i: the first position that is not white space
RECURSIVE SkipWs(_, _)
SkipWs(txt, i) ==
    IF i <= Len(txt) /\ txt[i] = NL THEN SkipWs(txt, i + 1) ELSE i

\* :? from position i
OptColon(txt, i) == IF i <= Len(txt) /\ txt[i] = COLON THEN i + 1 ELSE i

\* \s*:?\s* from position i
AfterSep(txt, i) == SkipWs(txt, OptColon(txt, SkipWs(txt, i)))

\* \s*<c>\s* from position i, 0 when <c> is not there
AfterChar(txt, i, c) ==
    LET j == SkipWs(txt, i)
    IN  IF j <= Len(txt) /\ txt[j] = c THEN SkipWs(txt, j + 1) ELSE 0

NoMatch == -1

Min(S) == CHOOSE x \in S : \A y \in S : x <= y

----------------------------------------------------------------------------
(* extract_scores *)

\* The scores section: the body captured by scores_section_match, or the whole
\* response when the header pattern does not match.
\* Where the body starts when the header pattern matches at token i, else 0:
\* (?:SCORES?|RUBRIC SCORES?|EVALUATION)\s*:?\s*\n
HeaderAt(txt, i) ==
    IF ~(i <= Len(txt) /\ txt[i] = HDR) THEN 0
    ELSE LET j == SkipWs(txt, i + 1)
         IN  IF j <= Len(txt) /\ txt[j] = COLON
             THEN IF SkipWs(txt, j + 1) > j + 1 THEN SkipWs(txt, j + 1)
                  ELSE IF j > i + 1 THEN j ELSE 0
             ELSE IF j > i + 1 THEN j ELSE 0

\* (?:WEIGHTED TOTAL|OVERALL|TOTAL|$): "WEIGHTED TOTAL", "OVERALL SCORE" and
\* "TOTAL SCORE" end the body; "FINAL SCORE" and a bare "WEIGHTED" do not
EndsSection(tok) == tok[1] = "TOT" /\ tok[2] \in {1, 2, 3}

ScoreText(txt) ==
    LET heads == {i \in 1..Len(txt) : HeaderAt(txt, i) # 0}
    IN  IF heads = {} THEN txt
        ELSE LET from == HeaderAt(txt, Min(heads))
                 ends == {j \in from..Len(txt) : EndsSection(txt[j])}
                 to   == IF ends = {} THEN Len(txt) ELSE Min(ends) - 1
             IN  SubSeq(txt, from, to)

\* patterns[p] of key variation v of key k, matched at token i: the number
\* captured, or NoMatch
PatternAt(txt, i, k, v, p) ==
    CASE p = 1 ->   \* "Category: 85"
           LET j == AfterSep(txt, i + 1)
           IN  IF IsKey(txt, i, k, v) /\ IsNum(txt, j) THEN txt[j][2] ELSE NoMatch
      [] p = 2 ->   \* "Category - 85"
           LET j == AfterChar(txt, i + 1, DASH)
           IN  IF IsKey(txt, i, k, v) /\ IsNum(txt, j) THEN txt[j][2] ELSE NoMatch
      [] p = 3 ->   \* "Category = 85"
           LET j == AfterChar(txt, i + 1, EQ)
           IN  IF IsKey(txt, i, k, v) /\ IsNum(txt, j) THEN txt[j][2] ELSE NoMatch
      [] p = 4 ->   \* "85: Category"
           IF IsNum(txt, i) /\ IsKey(txt, AfterSep(txt, i + 1), k, v)
           THEN txt[i][2] ELSE NoMatch

\* re.search(pattern, score_text, re.IGNORECASE) from token i on: the leftmost
\* match
RECURSIVE SearchFrom(_, _, _, _, _)
SearchFrom(txt, i, k, v, p) ==
    IF i > Len(txt) THEN NoMatch
    ELSE LET m == PatternAt(txt, i, k, v, p)
         IN  IF m # NoMatch THEN m ELSE SearchFrom(txt, i + 1, k, v, p)

Search(txt, k, v, p) == SearchFrom(txt, 1, k, v, p)

InRangeNoUpper(val) == 0 <= val

\* line 170
InRange(val) == 0 <= val /\ val <= 100

RECURSIVE ScoreFromFirstMatchOnly(_, _, _, _)
ScoreFromFirstMatchOnly(txt, k, v, p) ==
    IF v > 4 THEN NoMatch
    ELSE IF p > 4 THEN ScoreFromFirstMatchOnly(txt, k, v + 1, 1)
    ELSE LET m == Search(txt, k, v, p)
         IN  IF m # NoMatch THEN (IF InRange(m) THEN m ELSE NoMatch)
             ELSE ScoreFromFirstMatchOnly(txt, k, v, p + 1)

\* The loops over key_variations (v) and patterns (p) for one key, from the
\* pair (v, p) on: the value of the first pair whose match is in range, or
\* NoMatch.  An out-of-range match is dropped and the loops go on.
RECURSIVE ScoreFrom(_, _, _, _)
ScoreFrom(txt, k, v, p) ==
    IF v > 4 THEN NoMatch
    ELSE IF p > 4 THEN ScoreFrom(txt, k, v + 1, 1)
    ELSE LET m == Search(txt, k, v, p)
         IN  IF InRange(m) THEN m ELSE ScoreFrom(txt, k, v, p + 1)

ScoreOf(txt, k) == ScoreFrom(txt, k, 1, 1)

\* scores after the loop over RUBRIC.keys(): the keys that got a value
FoundScores(txt) ==
    LET st == ScoreText(txt)
        sc == [k \in Cats |-> ScoreOf(st, k)]
    IN  [k \in {c \in Cats : sc[c] # NoMatch} |-> sc[k]]

\* re.search(total_patterns[s], response, re.IGNORECASE) from token i on
RECURSIVE TotalSearchFrom(_, _, _)
TotalSearchFrom(txt, i, s) ==
    IF i > Len(txt) THEN NoMatch
    ELSE LET j == AfterSep(txt, i + 1)
         IN  IF txt[i] = Tot(s) /\ IsNum(txt, j) THEN txt[j][2]
             ELSE TotalSearchFrom(txt, i + 1, s)

TotalSearch(txt, s) == TotalSearchFrom(txt, 1, s)

\* The loop over total_patterns from pattern s on, total being the value so
\* far.  A match is assigned to total before the range test; an in-range
\* match ends the loop.
RECURSIVE TotalScan(_, _, _)
TotalScan(txt, s, tot) ==
    IF s > 5 THEN tot
    ELSE LET m == TotalSearch(txt, s)
         IN  IF m = NoMatch THEN TotalScan(txt, s + 1, tot)
             ELSE IF InRange(m) THEN m * Scale
             ELSE TotalScan(txt, s + 1, m * Scale)

ScannedTotal(txt) == TotalScan(txt, 1, 0)

RECURSIVE WeightedSum(_, _)
WeightedSum(sc, k) ==
    IF k = 0 THEN 0
    ELSE (IF k \in DOMAIN sc THEN sc[k] ELSE 0) * RUBRIC[k] + WeightedSum(sc, k - 1)

\* sum(scores.get(k, 0) * RUBRIC[k] for k in RUBRIC.keys())
CalculatedTotal(sc) == WeightedSum(sc, Len(RUBRIC))

FinalTotalOnlyIfNoTotal(sc, tot) ==
    IF tot = 0
    THEN IF CalculatedTotal(sc) > 0 THEN CalculatedTotal(sc) ELSE tot
    ELSE tot

\* "Calculate weighted total from individual scores if not found or incomplete"
FinalTotal(sc, tot) ==
    IF tot = 0 \/ Cardinality(DOMAIN sc) < Cardinality(Cats)
    THEN IF CalculatedTotal(sc) > 0 THEN CalculatedTotal(sc) ELSE tot
    ELSE tot

FillMissingNothing(sc) == sc

\* "Fill in missing scores with 0 for display"
FillMissing(sc) == [k \in Cats |-> IF k \in DOMAIN sc THEN sc[k] ELSE 0]

extract_scores(txt) ==
    LET sc == FoundScores(txt)
    IN  [scores |-> FillMissing(sc), total |-> FinalTotal(sc, ScannedTotal(txt))]

----------------------------------------------------------------------------
(* Replies: the texts extract_scores is applied to *)

\* A reply is written from a layout: some prose, then a block of the kind
\* SYSTEM_PROMPT asks for (a "SCORES:" header, the key lines of one of the
\* Rows, a "WEIGHTED TOTAL" line), with at most MaxDev departures from it: a
\* key line in another form, with another value or missing; one more key line
\* before the header, at the end of the block or after the total, the total
\* then written as "WEIGHTED TOTAL" or as "FINAL SCORE"; other total lines; no
\* header.
MaxDev == 1

NoLine == [form |-> "none", sep |-> "none", val |-> 0]

Line(form, sep, val) == [form |-> form, sep |-> sep, val |-> val]

Plain(vals) == [k \in Cats |-> Line("exact", ":", vals[k])]

\* the key lines of a block, per key
Rows ==
    << Plain(<<85, 90, 88, 92, 87, 95>>),
       Plain(<<0, 0, 0, 0, 0, 0>>),
       Plain(<<92, 95, 90, 93, 91, 97>>),
       Plain(<<96, 89, 90, 100, 0, 91>>),
       \* every line written "85: Category"
       [k \in Cats |-> Line("exact", "rev", <<85, 90, 88, 92, 87, 95>>[k])],
       \* mixed forms
       << Line("exact", "-", 78), Line("and", ":", 82), Line("exact", "=", 85),
          Line("lower", ":", 80), Line("exact", ":", 83), Line("dropped", ":", 90) >>,
       \* some keys only
       << Line("exact", ":", 90), NoLine, Line("exact", ":", 85),
          Line("exact", ":", 88), NoLine, NoLine >>,
       \* prose only
       [k \in Cats |-> NoLine],
       \* every key followed by words, not by a number
       [k \in Cats |-> Line("exact", "words", 0)] >>

PlainCell(r, k) == Rows[r][k]

OddCells ==
    {NoLine}
      \cup {Line("exact", ":", v) : v \in {101, -5}}
      \cup {Line(f, ":", 70) : f \in {"and", "dropped"}}
      \cup {Line("exact", sp, 70) : sp \in {"-", "=", "rev"}}

TotLine(s, val) == [syn |-> s, val |-> val]

TypicalTot == <<TotLine(1, 88)>>

TotVariants ==
    { <<>>,
      <<TotLine(1, 0)>>, <<TotLine(1, 100)>>, <<TotLine(1, 150)>>,
      <<TotLine(1, -5)>>,
      <<TotLine(2, 97)>>, <<TotLine(3, 120)>>, <<TotLine(4, 60)>>,
      <<TotLine(5, 60)>>,
      <<TotLine(1, 150), TotLine(2, 97)>> }

\* the total line of a reply with one more key line after it: "WEIGHTED TOTAL"
\* or "FINAL SCORE"
TailTots == {TypicalTot, <<TotLine(4, 60)>>}

NoExtra == [k |-> 0, place |-> "none", line |-> NoLine]

Extras ==
    { [k |-> k, place |-> pl, line |-> ln] :
        k \in {1, 2}, pl \in {"pre", "body", "post"},
        ln \in {Line("exact", ":", 55), Line("exact", "-", 55)} }

\* the departures: 1..6 the key lines, 7 the extra line, 8 the total, 9 the header
Slots == 1..9

DevSets == {S \in SUBSET Slots : Cardinality(S) <= MaxDev}

Layout(D, r, oc, tv, ex) ==
    [ hdr   |-> 9 \notin D,
      cells |-> [k \in Cats |-> IF k \in D THEN oc[k] ELSE PlainCell(r, k)],
      tot   |-> tv,
      extra |-> ex ]

\* given is a layout
IsLayout(lay) ==
    \E D \in DevSets, r \in DOMAIN Rows :
      \E oc \in [D \cap Cats -> OddCells],
         ex \in (IF 7 \in D THEN Extras ELSE {NoExtra}) :
        \E tv \in (IF 8 \in D THEN TotVariants
                   ELSE IF ex.place = "post" THEN TailTots ELSE {TypicalTot}) :
          lay = Layout(D, r, oc, tv, ex)

NumToks(v) == IF v < 0 THEN <<DASH, Num(-v)>> ELSE <<Num(v)>>

KeyLine(k, ln) ==
    CASE ln.form = "none" -> <<>>
      [] ln.sep = ":"   -> <<Key(k, ln.form), COLON>> \o NumToks(ln.val) \o <<NL>>
      [] ln.sep = "-"   -> <<Key(k, ln.form), DASH>> \o NumToks(ln.val) \o <<NL>>
      [] ln.sep = "="   -> <<Key(k, ln.form), EQ>> \o NumToks(ln.val) \o <<NL>>
      [] ln.sep = "words" -> <<Key(k, ln.form), COLON, WORD, NL>>
      [] ln.sep = "rev" -> NumToks(ln.val) \o <<COLON, Key(k, ln.form), NL>>

RECURSIVE KeyLines(_, _)
KeyLines(cells, k) ==
    IF k > Len(RUBRIC) THEN <<>> ELSE KeyLine(k, cells[k]) \o KeyLines(cells, k + 1)

RECURSIVE TotLines(_)
TotLines(ts) ==
    IF ts = <<>> THEN <<>>
    ELSE <<Tot(ts[1].syn), COLON>> \o NumToks(ts[1].val) \o <<NL>> \o TotLines(Tail(ts))

ExtraAt(lay, place) ==
    IF lay.extra.place = place THEN KeyLine(lay.extra.k, lay.extra.line) ELSE <<>>

Render(lay) ==
    <<WORD, NL>>
      \o ExtraAt(lay, "pre")
      \o (IF lay.hdr THEN <<HDR, COLON, NL>> ELSE <<>>)
      \o KeyLines(lay.cells, 1)
      \o ExtraAt(lay, "body")
      \o TotLines(lay.tot)
      \o ExtraAt(lay, "post")

----------------------------------------------------------------------------
(* extract_scores, step by step, on every reply *)

NoScores == [k \in {} |-> 0]

InitialPrompt == [kind |-> "initial", low |-> NoScores, shown |-> NoScores,
                  overall |-> 0]

MainIdle ==
    /\ pc = "idle"
    /\ iteration = 1
    /\ overall = 0
    /\ all_iterations = <<>>
    /\ prompt = InitialPrompt
    /\ files = [n \in {} |-> 0]
    /\ summary = <<>>
    /\ requests = 0
    /\ outcome = <<>>
    /\ error = <<>>
    /\ printed = {}

InitExtract ==
    /\ IsLayout(given)
    /\ response = Render(given)
    /\ xpc = "input"
    /\ found = NoScores
    /\ scanned = 0
    /\ scores = NoScores
    /\ total = 0
    /\ MainIdle

\* The loop over patterns for one key variation, from pattern p on: the first
\* match in range, or NoMatch
RECURSIVE PatternsFrom(_, _, _, _)
PatternsFrom(txt, k, v, p) ==
    IF p > 4 THEN NoMatch
    ELSE LET m == Search(txt, k, v, p)
         IN  IF InRange(m) THEN m ELSE PatternsFrom(txt, k, v, p + 1)

\* scores after the loop over RUBRIC.keys() when it is sc before it: a key
\* that sc holds leaves the loop over key_variations after the first
\* variation (line 176), with the value matched there or else the one it had
ScoresFrom(txt, sc) ==
    LET st  == ScoreText(txt)
        new == [k \in Cats |->
                  IF k \in DOMAIN sc
                  THEN LET m == PatternsFrom(st, k, 1, 1)
                       IN  IF m # NoMatch THEN m ELSE sc[k]
                  ELSE ScoreOf(st, k)]
    IN  [k \in {c \in Cats : new[c] # NoMatch} |-> new[k]]

\* lines 132-177
ScanCategories ==
    /\ xpc = "input"
    /\ found' = ScoresFrom(response, found)
    /\ xpc' = "scored"
    /\ UNCHANGED <<response, given, scanned, scores, total, mainVars>>

\* lines 179-196
ScanTotal ==
    /\ xpc = "scored"
    /\ scanned' = TotalScan(response, 1, scanned)
    /\ xpc' = "totalled"
    /\ UNCHANGED <<response, given, found, scores, total, mainVars>>

\* lines 198-209
Finish ==
    /\ xpc = "totalled"
    /\ total' = FinalTotal(found, scanned)
    /\ scores' = FillMissing(found)
    /\ xpc' = "done"
    /\ UNCHANGED <<response, given, found, scanned, mainVars>>

NextExtract == ScanCategories \/ ScanTotal \/ Finish

SpecExtract == InitExtract /\ [][NextExtract]_vars


----------------------------------------------------------------------------
(* main *)

\* max_iterations: 15 in the code, kept small here
max_iterations == 3

target_score == 96

\* The replies the completion endpoint may give to a request of main
ReplyLayouts ==
    { \* scores below 90, total 88
      Layout({}, 1, NoScores, TypicalTot, NoExtra),
      \* total 100
      Layout({8}, 4, NoScores, <<TotLine(1, 100)>>, NoExtra),
      \* every score at least 90, total 88
      Layout({}, 3, NoScores, TypicalTot, NoExtra),
      \* a reported total of 150
      Layout({8}, 1, NoScores, <<TotLine(1, 150)>>, NoExtra),
      \* some keys only
      Layout({}, 7, NoScores, TypicalTot, NoExtra),
      \* a key line with 101
      Layout({2}, 1, [k \in {2} |-> Line("exact", ":", 101)], TypicalTot, NoExtra),
      \* a first key line with -5
      Layout({1}, 6, [k \in {1} |-> Line("exact", ":", -5)], TypicalTot, NoExtra),
      \* prose only
      Layout({8, 9}, 8, NoScores, <<>>, NoExtra) }

\* chat(prompt) returning, and extract_scores applied to what it returned
\* (lines 254-255), for each reply
Replies ==
    { [layout |-> lay, response |-> Render(lay),
       extracted |-> extract_scores(Render(lay))] : lay \in ReplyLayouts }

CallKeepsLocals ==
    /\ xpc = "done"
    /\ given' \in ReplyLayouts
    /\ response' = Render(given')
    /\ xpc' = "input"
    /\ UNCHANGED <<found, scanned, scores, total, mainVars>>

\* extract_scores is called again, on another reply or on the same one
\* (lines 127-130); scores and total are what the call before returned
Call ==
    /\ xpc = "done"
    /\ given' \in ReplyLayouts
    /\ response' = Render(given')
    /\ found' = NoScores
    /\ scanned' = 0
    /\ xpc' = "input"
    /\ UNCHANGED <<scores, total, mainVars>>

\* a first call on one of the replies of main
InitCalls ==
    /\ given \in ReplyLayouts
    /\ response = Render(given)
    /\ xpc = "input"
    /\ found = NoScores
    /\ scanned = 0
    /\ scores = NoScores
    /\ total = 0
    /\ MainIdle

NextCalls == Call \/ ScanCategories \/ ScanTotal \/ Finish

\* extract_scores called again and again
SpecCalls == InitCalls /\ [][NextCalls]_vars

\* lines 257-263; the timestamp is left out
Result(it, resp, sc, ov) ==
    [iteration |-> it, script |-> resp, scores |-> sc, overall_score |-> ov]

LowScoresUpTo90(sc) == [k \in {c \in DOMAIN sc : sc[c] <= 90} |-> sc[k]]

\* lines 286-319: the next prompt
LowScores(sc) == [k \in {c \in DOMAIN sc : sc[c] < 90} |-> sc[k]]

Feedback(sc, ov) ==
    IF DOMAIN LowScores(sc) # {}
    THEN [kind |-> "revise", low |-> LowScores(sc), shown |-> sc, overall |-> ov]
    ELSE [kind |-> "refine", low |-> NoScores, shown |-> NoScores, overall |-> ov]

SummaryOfFirstPass ==
    [ final_score      |-> IF all_iterations = <<>> THEN 0
                           ELSE all_iterations[1].overall_score,
      target_score     |-> target_score,
      total_iterations |-> iteration - 1,
      achieved_target  |-> overall >= target_score * Scale,
      iterations       |-> all_iterations ]

\* lines 333-339
Summary ==
    [ final_score      |-> overall,
      target_score     |-> target_score,
      total_iterations |-> iteration - 1,
      achieved_target  |-> overall >= target_score * Scale,
      iterations       |-> all_iterations ]

LoopGuardOffByOne ==
    overall < target_score * Scale /\ iteration <= max_iterations + 1

\* line 250
LoopGuard == overall < target_score * Scale /\ iteration <= max_iterations

InLoop == pc \in {"while", "chat", "save", "decide"}

Init ==
    /\ given = Layout({}, 1, NoScores, TypicalTot, NoExtra)
    /\ response = <<>>
    /\ xpc = "idle"
    /\ found = NoScores
    /\ scanned = 0
    /\ scores = NoScores
    /\ total = 0
    /\ pc = "while"
    /\ iteration = 1
    /\ overall = 0
    /\ all_iterations = <<>>
    /\ prompt = InitialPrompt
    /\ files = [n \in {} |-> 0]
    /\ summary = <<>>
    /\ requests = 0
    /\ outcome = <<>>
    /\ error = <<>>
    /\ printed = {}

LoopEnterResends ==
    /\ pc = "while"
    /\ LoopGuard
    /\ requests' = requests + 2
    /\ pc' = "chat"
    /\ UNCHANGED <<response, scores, extractVars, iteration, overall,
                   all_iterations, prompt, files, summary, outcome, error, printed>>

\* line 250, condition true; line 254, the request goes out
LoopEnter ==
    /\ pc = "while"
    /\ LoopGuard
    /\ requests' = requests + 1
    /\ pc' = "chat"
    /\ UNCHANGED <<response, scores, extractVars, iteration, overall,
                   all_iterations, prompt, files, summary, outcome, error, printed>>

\* line 250, condition false
LoopExit ==
    /\ pc = "while"
    /\ ~LoopGuard
    /\ outcome' = Append(outcome, "MAX_ITERATIONS_EXHAUSTED")
    /\ pc' = "after"
    /\ UNCHANGED <<response, scores, extractVars, iteration, overall,
                   all_iterations, prompt, files, summary, requests, error, printed>>

\* lines 254-265: the reply arrives, its scores are extracted, the result is
\* appended
ChatReturns ==
    /\ pc = "chat"
    /\ \E reply \in Replies :
         /\ given' = reply.layout
         /\ response' = reply.response
         /\ scores' = reply.extracted.scores
         /\ overall' = reply.extracted.total
         /\ all_iterations' =
              Append(all_iterations,
                     Result(iteration, response', scores', overall'))
    /\ pc' = "save"
    /\ UNCHANGED <<xpc, found, scanned, total, iteration, prompt, files,
                   summary, requests, outcome, error, printed>>

ChatRaisesRetries ==
    /\ pc = "chat"
    /\ error' = Append(error, "chat")
    /\ outcome' = Append(outcome, "FAILED")
    /\ pc' = "while"
    /\ UNCHANGED <<response, scores, extractVars, iteration, overall,
                   all_iterations, prompt, files, summary, requests, printed>>

\* lines 123-125, 323-325: the call raises
ChatRaises ==
    /\ pc = "chat"
    /\ error' = Append(error, "chat")
    /\ printed' = printed \cup {"error in iteration"}
    /\ outcome' = Append(outcome, "FAILED")
    /\ pc' = "after"
    /\ UNCHANGED <<response, scores, extractVars, iteration, overall,
                   all_iterations, prompt, files, summary, requests>>

SaveFileSkipped ==
    /\ pc = "save"
    /\ pc' = "decide"
    /\ UNCHANGED <<response, scores, extractVars, iteration, overall,
                   all_iterations, prompt, files, summary, requests, outcome,
                   error, printed>>

\* lines 268-270
SaveFile ==
    /\ pc = "save"
    /\ files' = [n \in DOMAIN files \cup {iteration} |->
                   IF n = iteration THEN all_iterations[Len(all_iterations)]
                   ELSE files[n]]
    /\ pc' = "decide"
    /\ UNCHANGED <<response, scores, extractVars, iteration, overall,
                   all_iterations, prompt, summary, requests, outcome, error,
                   printed>>

SaveRaisesSwallowed ==
    /\ pc = "save"
    /\ error' = Append(error, "save")
    /\ pc' = "decide"
    /\ UNCHANGED <<response, scores, extractVars, iteration, overall,
                   all_iterations, prompt, files, summary, requests, outcome,
                   printed>>

\* lines 268-270 raise (OSError), lines 323-325
SaveRaises ==
    /\ pc = "save"
    /\ error' = Append(error, "save")
    /\ printed' = printed \cup {"error in iteration"}
    /\ outcome' = Append(outcome, "FAILED")
    /\ pc' = "after"
    /\ UNCHANGED <<response, scores, extractVars, iteration, overall,
                   all_iterations, prompt, files, summary, requests>>

TargetReachedNoBreak ==
    /\ pc = "decide"
    /\ overall >= target_score * Scale
    /\ printed' = printed \cup {"target reached"}
    /\ outcome' = Append(outcome, "TARGET_REACHED")
    /\ pc' = "while"
    /\ UNCHANGED <<response, scores, extractVars, iteration, overall,
                   all_iterations, prompt, files, summary, requests, error>>

\* lines 280-283
TargetReached ==
    /\ pc = "decide"
    /\ overall >= target_score * Scale
    /\ printed' = printed \cup {"target reached"}
    /\ outcome' = Append(outcome, "TARGET_REACHED")
    /\ pc' = "after"
    /\ UNCHANGED <<response, scores, extractVars, iteration, overall,
                   all_iterations, prompt, files, summary, requests, error>>

ContinueSameIteration ==
    /\ pc = "decide"
    /\ ~(overall >= target_score * Scale)
    /\ prompt' = Feedback(scores, overall)
    /\ pc' = "while"
    /\ UNCHANGED <<response, scores, extractVars, iteration, overall,
                   all_iterations, files, summary, requests, outcome, error,
                   printed>>

\* lines 280, 286-321
Continue ==
    /\ pc = "decide"
    /\ ~(overall >= target_score * Scale)
    /\ prompt' = Feedback(scores, overall)
    /\ iteration' = iteration + 1
    /\ pc' = "while"
    /\ UNCHANGED <<response, scores, extractVars, overall, all_iterations,
                   files, summary, requests, outcome, error, printed>>

\* lines 327-330
FinalStatus ==
    /\ pc = "after"
    /\ printed' = IF overall < target_score * Scale
                  THEN printed \cup {"maximum iterations reached"}
                  ELSE printed
    /\ pc' = "summary"
    /\ UNCHANGED <<response, scores, extractVars, iteration, overall,
                   all_iterations, prompt, files, summary, requests, outcome,
                   error>>

\* lines 333-343
SaveSummary ==
    /\ pc = "summary"
    /\ summary' = Append(summary, Summary)
    /\ pc' = "done"
    /\ UNCHANGED <<response, scores, extractVars, iteration, overall,
                   all_iterations, prompt, files, requests, outcome, error,
                   printed>>

\* lines 342-343 raise (OSError): nothing catches it
SummaryRaises ==
    /\ pc = "summary"
    /\ error' = Append(error, "summary")
    /\ pc' = "aborted"
    /\ UNCHANGED <<response, scores, extractVars, iteration, overall,
                   all_iterations, prompt, files, summary, requests, outcome,
                   printed>>

\* KeyboardInterrupt is no Exception: line 323 does not catch it, main ends.
\* (run_iteration_with_initial_script.py has the same loop; there the
\* interrupt is caught around main(), lines 338-339, by a handler that prints.)
Interrupt ==
    /\ InLoop \/ pc \in {"after", "summary"}
    /\ error' = Append(error, "interrupt")
    /\ pc' = "aborted"
    /\ UNCHANGED <<response, scores, extractVars, iteration, overall,
                   all_iterations, prompt, files, summary, requests, outcome,
                   printed>>

Next ==
    \/ LoopEnter
    \/ LoopExit
    \/ ChatReturns
    \/ ChatRaises
    \/ SaveFile
    \/ SaveRaises
    \/ TargetReached
    \/ Continue
    \/ FinalStatus
    \/ SaveSummary
    \/ SummaryRaises
    \/ Interrupt

Spec == Init /\ [][Next]_vars

\* main runs on: a step that can be taken is taken
FairSpec == Spec /\ WF_vars(Next)

\* extract_scores on every reply, and main
SpecAll == (Init \/ InitExtract) /\ [][Next \/ NextExtract]_vars


----------------------------------------------------------------------------
(* self_improving_loop.py: main *)

\* The loop of self_improving_loop.main, on the variables of main above: pc,
\* iteration, response (the reply), scores (previous_scores), overall
\* (total_score), files (SAVE_DIR, file name -> content), requests, outcome,
\* error.  A file name is <<kind, number>>.  max_iterations is 5 and
\* target_score is 96 in that file; the definitions above are used.

\* What chat returns: text without a JSON object, text whose JSON does not
\* parse, or a JSON object with or without an "iteration" member
SilReplies ==
    { [json |-> j, has_iteration |-> FALSE, iteration |-> 0, Total |-> 0,
       status |-> "CONTINUE"] : j \in {"none", "invalid"} }
      \cup
    { [json |-> "object", has_iteration |-> h, iteration |-> n, Total |-> t,
       status |-> st] :
        h \in BOOLEAN, n \in 0..max_iterations, t \in {80, 97},
        st \in {"CONTINUE", "DONE"} }

\* extract_json, lines 89-113: the parsed object, or None
extract_json(reply) == IF reply.json = "object" THEN <<reply>> ELSE <<>>

\* result.get("iteration", iteration), line 193
IterNum(result, it) == IF result.has_iteration THEN result.iteration ELSE it

\* open(name, "w") and a dump of content
Written(fs, name, content) ==
    [n \in DOMAIN fs \cup {name} |-> IF n = name THEN content ELSE fs[n]]

SilIdle ==
    /\ given = Layout({}, 1, NoScores, TypicalTot, NoExtra)
    /\ xpc = "idle"
    /\ found = NoScores
    /\ scanned = 0
    /\ total = 0
    /\ all_iterations = <<>>
    /\ prompt = InitialPrompt
    /\ summary = <<>>
    /\ printed = {}

\* lines 132-144
SilInit ==
    /\ SilIdle
    /\ pc = "sil_while"
    /\ iteration = 1
    /\ response = <<>>
    /\ scores = NoScores
    /\ overall = 0
    /\ files = [n \in {} |-> 0]
    /\ requests = 0
    /\ outcome = <<>>
    /\ error = <<>>

SilKept == <<given, xpc, found, scanned, total, all_iterations, prompt,
             summary, printed>>

\* line 146, condition true; line 185, the request goes out
SilLoopEnter ==
    /\ pc = "sil_while"
    /\ iteration <= max_iterations
    /\ requests' = requests + 1
    /\ pc' = "sil_chat"
    /\ UNCHANGED <<response, scores, overall, iteration, files, outcome, error,
                   SilKept>>

\* line 146, condition false
SilLoopExit ==
    /\ pc = "sil_while"
    /\ ~(iteration <= max_iterations)
    /\ outcome' = Append(outcome, "MAX_ITERATIONS_EXHAUSTED")
    /\ pc' = "sil_marker"
    /\ UNCHANGED <<response, scores, overall, iteration, files, requests, error,
                   SilKept>>

\* lines 185, 305-309: the call raises
SilChatRaises ==
    /\ pc = "sil_chat"
    /\ error' = Append(error, "chat")
    /\ outcome' = Append(outcome, "FAILED")
    /\ pc' = "sil_marker"
    /\ UNCHANGED <<response, scores, overall, iteration, files, requests,
                   SilKept>>

\* lines 185-197: the reply has no JSON object; the raw reply is saved under
\* the pass number and the loop is left
SilNoJson ==
    /\ pc = "sil_chat"
    /\ \E reply \in SilReplies :
         /\ extract_json(reply) = <<>>
         /\ response' = reply
         /\ files' =
              LET fs == IF reply.json = "invalid"
                        THEN Written(files, <<"last_response_error", 0>>, reply)
                        ELSE files
              IN  Written(fs, <<"iteration_raw", iteration>>, reply)
    /\ outcome' = Append(outcome, "FAILED")
    /\ pc' = "sil_marker"
    /\ UNCHANGED <<scores, overall, iteration, requests, error, SilKept>>

\* lines 185-210: the reply parses; the result and the paper are saved under
\* iter_num
SilSave ==
    /\ pc = "sil_chat"
    /\ \E reply \in SilReplies :
         /\ extract_json(reply) # <<>>
         /\ response' = reply
         /\ overall' = reply.Total
         /\ files' =
              LET iter_num == IterNum(reply, iteration)
              IN  Written(Written(files, <<"iteration", iter_num>>, reply),
                          <<"paper_iteration", iter_num>>, reply)
    /\ pc' = "sil_decide"
    /\ UNCHANGED <<scores, iteration, requests, outcome, error, SilKept>>

\* lines 250-297
SilTargetAchieved ==
    /\ pc = "sil_decide"
    /\ overall >= target_score /\ response.status = "DONE"
    /\ files' = Written(Written(files, <<"FINAL_PAPER_96PLUS", 0>>, response),
                        <<"FINAL_SCORECARD", 0>>, response)
    /\ outcome' = Append(outcome, "TARGET_REACHED")
    /\ pc' = "sil_marker"
    /\ UNCHANGED <<response, scores, overall, iteration, requests, error,
                   SilKept>>

\* lines 250, 299-303
SilContinue ==
    /\ pc = "sil_decide"
    /\ ~(overall >= target_score /\ response.status = "DONE")
    /\ scores' = <<response.Total>>
    /\ iteration' = iteration + 1
    /\ pc' = "sil_while"
    /\ UNCHANGED <<response, overall, files, requests, outcome, error, SilKept>>

\* lines 311-335: the completion marker
SilMarker ==
    /\ pc = "sil_marker"
    /\ files' = Written(files, <<"FINISHED_SELF_IMPROVING", 0>>, iteration - 1)
    /\ pc' = "sil_done"
    /\ UNCHANGED <<response, scores, overall, iteration, requests, outcome,
                   error, SilKept>>

SilNext ==
    \/ SilLoopEnter
    \/ SilLoopExit
    \/ SilChatRaises
    \/ SilNoJson
    \/ SilSave
    \/ SilTargetAchieved
    \/ SilContinue
    \/ SilMarker

SpecSelfImproving == SilInit /\ [][SilNext]_vars

----------------------------------------------------------------------------
(* src/improver.py: ImprovementEngine.improve_until_threshold *)

\* The loop of improve_until_threshold, on the variables of main above: pc,
\* iteration, response (current_report, as the number of improvements made),
\* scores and overall (evaluation["scores"], evaluation["weighted_total"]),
\* all_iterations (self.iteration_history), requests (the calls of
\* improve_report), summary (the result returned), outcome, error.
\* self.max_iterations and self.target_score come from config/rubric.json;
\* max_iterations above and the threshold below stand for them, and RUBRIC
\* for the weights.

\* self.target_score, and the default of get_categories_below_threshold
threshold == 90

\* The scores an evaluation may give: every category above, every category
\* exactly at, one category just below, every category far below the threshold
EngScores ==
    { [k \in Cats |-> 95],
      [k \in Cats |-> threshold],
      [k \in Cats |-> IF k = 3 THEN threshold - 1 ELSE 95],
      [k \in Cats |-> 50] }

\* evaluator.evaluate_report, lines 119-156: scores and their weighted total
EngEvaluation(sc) == [scores |-> sc, weighted_total |-> CalculatedTotal(sc)]

CategoriesBelowOrAt(sc, thr) == {k \in DOMAIN sc : sc[k] <= thr}

\* evaluator.get_categories_below_threshold, lines 158-174
CategoriesBelow(sc, thr) == {k \in DOMAIN sc : sc[k] < thr}

EngKept == <<given, xpc, found, scanned, total, prompt, files, printed>>

\* lines 41-44
EngInit ==
    /\ given = Layout({}, 1, NoScores, TypicalTot, NoExtra)
    /\ xpc = "idle"
    /\ found = NoScores
    /\ scanned = 0
    /\ total = 0
    /\ prompt = InitialPrompt
    /\ files = [n \in {} |-> 0]
    /\ printed = {}
    /\ pc = "eng_while"
    /\ iteration = 0
    /\ response = 0
    /\ scores = NoScores
    /\ overall = 0
    /\ all_iterations = <<>>
    /\ requests = 0
    /\ summary = <<>>
    /\ outcome = <<>>
    /\ error = <<>>

\* lines 46-47
EngLoopEnter ==
    /\ pc = "eng_while"
    /\ iteration < max_iterations
    /\ iteration' = iteration + 1
    /\ pc' = "eng_eval"
    /\ UNCHANGED <<response, scores, overall, all_iterations, requests, summary,
                   outcome, error, EngKept>>

\* line 46, condition false
EngLoopExit ==
    /\ pc = "eng_while"
    /\ ~(iteration < max_iterations)
    /\ outcome' = Append(outcome, "MAX_ITERATIONS_EXHAUSTED")
    /\ pc' = "eng_final"
    /\ UNCHANGED <<response, scores, overall, iteration, all_iterations,
                   requests, summary, error, EngKept>>

\* lines 53-62: the report is evaluated, the evaluation goes into the history
EngEvaluate ==
    /\ pc = "eng_eval"
    /\ \E sc \in EngScores :
         /\ scores' = EngEvaluation(sc).scores
         /\ overall' = EngEvaluation(sc).weighted_total
         /\ all_iterations' =
              Append(all_iterations,
                     [iteration |-> iteration, scores |-> scores',
                      weighted_total |-> overall'])
    /\ pc' = "eng_check"
    /\ UNCHANGED <<response, iteration, requests, summary, outcome, error,
                   EngKept>>

\* a call of the evaluator or of the generator raises (lines 53, 84, 90):
\* nothing in improve_until_threshold catches it
EngRaises ==
    /\ pc \in {"eng_eval", "eng_improve", "eng_final"}
    /\ error' = Append(error, pc)
    /\ pc' = "eng_raised"
    /\ UNCHANGED <<response, scores, overall, iteration, all_iterations,
                   requests, summary, outcome, EngKept>>

\* lines 72-78: no category is below the threshold
EngAllMet ==
    /\ pc = "eng_check"
    /\ CategoriesBelow(scores, threshold) = {}
    /\ outcome' = Append(outcome, "ALL_MET")
    /\ pc' = "eng_final"
    /\ UNCHANGED <<response, scores, overall, iteration, all_iterations,
                   requests, summary, error, EngKept>>

\* lines 72-84: some category is below; improve_report is called
EngSomeBelow ==
    /\ pc = "eng_check"
    /\ CategoriesBelow(scores, threshold) # {}
    /\ requests' = requests + 1
    /\ pc' = "eng_improve"
    /\ UNCHANGED <<response, scores, overall, iteration, all_iterations,
                   summary, outcome, error, EngKept>>

\* lines 84-87: improve_report returns the next report
EngImproved ==
    /\ pc = "eng_improve"
    /\ response' = response + 1
    /\ pc' = "eng_while"
    /\ UNCHANGED <<scores, overall, iteration, all_iterations, requests,
                   summary, outcome, error, EngKept>>

\* lines 90-100: the final evaluation, and the result
EngReturn ==
    /\ pc = "eng_final"
    /\ \E sc \in EngScores :
         summary' =
           Append(summary,
                  [ final_report         |-> response,
                    final_scores         |-> EngEvaluation(sc).scores,
                    final_weighted_total |-> EngEvaluation(sc).weighted_total,
                    iteration_history    |-> all_iterations,
                    total_iterations     |-> iteration,
                    converged            |-> iteration < max_iterations,
                    passed               |-> EngEvaluation(sc).weighted_total
                                               >= threshold * Scale ])
    /\ pc' = "eng_done"
    /\ UNCHANGED <<response, scores, overall, iteration, all_iterations,
                   requests, outcome, error, EngKept>>

EngNext ==
    \/ EngLoopEnter
    \/ EngLoopExit
    \/ EngEvaluate
    \/ EngRaises
    \/ EngAllMet
    \/ EngSomeBelow
    \/ EngImproved
    \/ EngReturn

SpecEngine == EngInit /\ [][EngNext]_vars

\* the calls return or raise
FairSpecEngine == SpecEngine /\ WF_vars(EngNext)

----------------------------------------------------------------------------
(* run_iteration_with_initial_script.py: main *)

\* main of run_iteration_with_initial_script.py, on the variables of main
\* above.  files is SAVE_DIR and the working directory, file name -> content,
\* a file name being <<kind, number>>; summary is summary.json.  The local
\* name scores is bound by line 223 only: NoScores stands for the unbound
\* name, every value extract_scores returns has all six keys.

\* lines 315-328: the text of FINISHED.txt
FinishedText ==
    [ final_score      |-> overall,
      status           |-> IF overall >= target_score * Scale
                           THEN "ACHIEVED" ELSE "NOT ACHIEVED",
      total_iterations |-> iteration - 1,
      scores           |-> scores ]

RisKept == <<xpc, found, scanned, total>>

\* lines 187-191, 197
RisInit ==
    /\ given = Layout({}, 1, NoScores, TypicalTot, NoExtra)
    /\ response = <<>>
    /\ xpc = "idle"
    /\ found = NoScores
    /\ scanned = 0
    /\ total = 0
    /\ scores = NoScores
    /\ pc = "ris_while"
    /\ iteration = 1
    /\ overall = 0
    /\ all_iterations = <<>>
    /\ prompt = InitialPrompt
    /\ files = [n \in {} |-> 0]
    /\ summary = <<>>
    /\ requests = 0
    /\ outcome = <<>>
    /\ error = <<>>
    /\ printed = {}

\* line 218, condition true; line 222, the request goes out
RisLoopEnter ==
    /\ pc = "ris_while"
    /\ LoopGuard
    /\ requests' = requests + 1
    /\ pc' = "ris_chat"
    /\ UNCHANGED <<response, scores, given, iteration, overall, all_iterations,
                   prompt, files, summary, outcome, error, printed, RisKept>>

\* line 218, condition false
RisLoopExit ==
    /\ pc = "ris_while"
    /\ ~LoopGuard
    /\ outcome' = Append(outcome, "MAX_ITERATIONS_EXHAUSTED")
    /\ pc' = "ris_after"
    /\ UNCHANGED <<response, scores, given, iteration, overall, all_iterations,
                   prompt, files, summary, requests, error, printed, RisKept>>

\* lines 222-233
RisChatReturns ==
    /\ pc = "ris_chat"
    /\ \E reply \in Replies :
         /\ given' = reply.layout
         /\ response' = reply.response
         /\ scores' = reply.extracted.scores
         /\ overall' = reply.extracted.total
         /\ all_iterations' =
              Append(all_iterations,
                     Result(iteration, response', scores', overall'))
    /\ pc' = "ris_save"
    /\ UNCHANGED <<iteration, prompt, files, summary, requests, outcome, error,
                   printed, RisKept>>

\* lines 91-93, 289-291: the call raises
RisChatRaises ==
    /\ pc = "ris_chat"
    /\ error' = Append(error, "chat")
    /\ printed' = printed \cup {"error in iteration"}
    /\ outcome' = Append(outcome, "FAILED")
    /\ pc' = "ris_after"
    /\ UNCHANGED <<response, scores, given, iteration, overall, all_iterations,
                   prompt, files, summary, requests, RisKept>>

\* lines 236-238
RisSaveFile ==
    /\ pc = "ris_save"
    /\ files' = Written(files, <<"iteration", iteration>>,
                        all_iterations[Len(all_iterations)])
    /\ pc' = "ris_decide"
    /\ UNCHANGED <<response, scores, given, iteration, overall, all_iterations,
                   prompt, summary, requests, outcome, error, printed, RisKept>>

\* lines 236-238 raise (OSError), lines 289-291
RisSaveRaises ==
    /\ pc = "ris_save"
    /\ error' = Append(error, "save")
    /\ printed' = printed \cup {"error in iteration"}
    /\ outcome' = Append(outcome, "FAILED")
    /\ pc' = "ris_after"
    /\ UNCHANGED <<response, scores, given, iteration, overall, all_iterations,
                   prompt, files, summary, requests, RisKept>>

\* lines 248-251
RisTargetReached ==
    /\ pc = "ris_decide"
    /\ overall >= target_score * Scale
    /\ printed' = printed \cup {"target reached"}
    /\ outcome' = Append(outcome, "TARGET_REACHED")
    /\ pc' = "ris_after"
    /\ UNCHANGED <<response, scores, given, iteration, overall, all_iterations,
                   prompt, files, summary, requests, error, RisKept>>

\* lines 248, 254-287
RisContinue ==
    /\ pc = "ris_decide"
    /\ ~(overall >= target_score * Scale)
    /\ prompt' = Feedback(scores, overall)
    /\ iteration' = iteration + 1
    /\ pc' = "ris_while"
    /\ UNCHANGED <<response, scores, given, overall, all_iterations, files,
                   summary, requests, outcome, error, printed, RisKept>>

\* lines 293-308: the final status line, then summary.json
RisSaveSummary ==
    /\ pc = "ris_after"
    /\ printed' = IF overall < target_score * Scale
                  THEN printed \cup {"maximum iterations reached"}
                  ELSE printed
    /\ summary' = Append(summary, Summary)
    /\ pc' = "ris_finished"
    /\ UNCHANGED <<response, scores, given, iteration, overall, all_iterations,
                   prompt, files, requests, outcome, error, RisKept>>

\* lines 307-308 raise (OSError), caught at line 340
RisSummaryRaises ==
    /\ pc = "ris_after"
    /\ printed' = (IF overall < target_score * Scale
                   THEN printed \cup {"maximum iterations reached"}
                   ELSE printed) \cup {"fatal error"}
    /\ error' = Append(error, "summary")
    /\ pc' = "ris_fatal"
    /\ UNCHANGED <<response, scores, given, iteration, overall, all_iterations,
                   prompt, files, summary, requests, outcome, RisKept>>

\* lines 313-328, scores bound: FINISHED.txt is written
RisFinished ==
    /\ pc = "ris_finished"
    /\ DOMAIN scores # {}
    /\ files' = Written(files, <<"FINISHED", 0>>, <<FinishedText>>)
    /\ pc' = "ris_done"
    /\ UNCHANGED <<response, scores, given, iteration, overall, all_iterations,
                   prompt, summary, requests, outcome, error, printed, RisKept>>

\* lines 313-328, scores unbound: line 314 has opened (and emptied)
\* FINISHED.txt when the text of line 315 is built; scores.items() of line
\* 327 raises UnboundLocalError, caught at line 340
RisFinishedRaises ==
    /\ pc = "ris_finished"
    /\ DOMAIN scores = {}
    /\ files' = Written(files, <<"FINISHED", 0>>, <<>>)
    /\ error' = Append(error, "finished")
    /\ printed' = printed \cup {"fatal error"}
    /\ pc' = "ris_fatal"
    /\ UNCHANGED <<response, scores, given, iteration, overall, all_iterations,
                   prompt, summary, requests, outcome, RisKept>>

\* KeyboardInterrupt is no Exception: line 289 does not catch it, the handler
\* of lines 338-339 prints and the program ends
RisInterrupt ==
    /\ pc \in {"ris_while", "ris_chat", "ris_save", "ris_decide", "ris_after",
               "ris_finished"}
    /\ error' = Append(error, "interrupt")
    /\ printed' = printed \cup {"interrupted"}
    /\ pc' = "ris_interrupted"
    /\ UNCHANGED <<response, scores, given, iteration, overall, all_iterations,
                   prompt, files, summary, requests, outcome, RisKept>>

RisNext ==
    \/ RisLoopEnter
    \/ RisLoopExit
    \/ RisChatReturns
    \/ RisChatRaises
    \/ RisSaveFile
    \/ RisSaveRaises
    \/ RisTargetReached
    \/ RisContinue
    \/ RisSaveSummary
    \/ RisSummaryRaises
    \/ RisFinished
    \/ RisFinishedRaises
    \/ RisInterrupt

SpecInitialScript == RisInit /\ [][RisNext]_vars

----------------------------------------------------------------------------
(* supreme_builder.py: main *)

\* main of supreme_builder.py, on the variables of main above: pc, iteration,
\* response (result, the parsed reply), scores (<<total_score>> once line 176
\* has bound the name, NoScores before), all_iterations, prompt, files
\* (SAVE_DIR and the working directory, <<kind, number>> -> content), summary
\* (supreme_summary.json), requests, outcome, error.  max_iterations is 10 in
\* that file; the bound above is used.

\* line 136
supreme_target_score == 98

\* What chat returns: text without a JSON object, text whose JSON does not
\* parse, or a JSON object with a scorecard total and a status
SupReplies ==
    { [json |-> j, total |-> 0, status |-> "CONTINUE"] :
        j \in {"none", "invalid"} }
      \cup
    { [json |-> "object", total |-> t, status |-> st] :
        t \in {80, 99}, st \in {"CONTINUE", "DONE"} }

SupKept == <<given, xpc, found, scanned, total, overall, printed>>

\* lines 134-159
SupInit ==
    /\ given = Layout({}, 1, NoScores, TypicalTot, NoExtra)
    /\ xpc = "idle"
    /\ found = NoScores
    /\ scanned = 0
    /\ total = 0
    /\ overall = 0
    /\ printed = {}
    /\ response = <<>>
    /\ scores = NoScores
    /\ pc = "sup_while"
    /\ iteration = 1
    /\ all_iterations = <<>>
    /\ prompt = InitialPrompt
    /\ files = [n \in {} |-> 0]
    /\ summary = <<>>
    /\ requests = 0
    /\ outcome = <<>>
    /\ error = <<>>

\* line 161, condition true; line 166, the request goes out
SupLoopEnter ==
    /\ pc = "sup_while"
    /\ iteration <= max_iterations
    /\ requests' = requests + 1
    /\ pc' = "sup_chat"
    /\ UNCHANGED <<response, scores, iteration, all_iterations, prompt, files,
                   summary, outcome, error, SupKept>>

\* line 161, condition false
SupLoopExit ==
    /\ pc = "sup_while"
    /\ ~(iteration <= max_iterations)
    /\ outcome' = Append(outcome, "MAX_ITERATIONS_EXHAUSTED")
    /\ pc' = "sup_summary"
    /\ UNCHANGED <<response, scores, iteration, all_iterations, prompt, files,
                   summary, requests, error, SupKept>>

\* lines 100-102, 266-270: the call raises
SupChatRaises ==
    /\ pc = "sup_chat"
    /\ error' = Append(error, "chat")
    /\ outcome' = Append(outcome, "FAILED")
    /\ pc' = "sup_summary"
    /\ UNCHANGED <<response, scores, iteration, all_iterations, prompt, files,
                   summary, requests, SupKept>>

\* lines 166-172: the reply has no JSON object that parses
SupNoJson ==
    /\ pc = "sup_chat"
    /\ \E reply \in SupReplies :
         /\ reply.json # "object"
         /\ response' = reply
    /\ outcome' = Append(outcome, "FAILED")
    /\ pc' = "sup_summary"
    /\ UNCHANGED <<scores, iteration, all_iterations, prompt, files, summary,
                   requests, error, SupKept>>

\* lines 166-199: the reply parses and is saved as iteration_N.json
SupSave ==
    /\ pc = "sup_chat"
    /\ \E reply \in SupReplies :
         /\ reply.json = "object"
         /\ response' = reply
         /\ scores' = <<reply.total>>
         /\ files' = Written(files, <<"iteration", iteration>>, reply)
    /\ pc' = "sup_decide"
    /\ UNCHANGED <<iteration, all_iterations, prompt, summary, requests,
                   outcome, error, SupKept>>

\* lines 166-182, 266-270: the reply parses, writing iteration_N.json raises
\* (OSError)
SupSaveRaises ==
    /\ pc = "sup_chat"
    /\ \E reply \in SupReplies :
         /\ reply.json = "object"
         /\ response' = reply
         /\ scores' = <<reply.total>>
    /\ error' = Append(error, "save")
    /\ outcome' = Append(outcome, "FAILED")
    /\ pc' = "sup_summary"
    /\ UNCHANGED <<iteration, all_iterations, prompt, files, summary, requests,
                   SupKept>>

\* lines 202-222
SupTargetAchieved ==
    /\ pc = "sup_decide"
    /\ scores[1] >= supreme_target_score /\ response.status = "DONE"
    /\ files' = Written(Written(files, <<"final_supreme_script", 0>>, response),
                        <<"figures_and_tables", 0>>, response)
    /\ outcome' = Append(outcome, "TARGET_REACHED")
    /\ pc' = "sup_summary"
    /\ UNCHANGED <<response, scores, iteration, all_iterations, prompt,
                   summary, requests, error, SupKept>>

\* lines 202, 225-264: the next prompt, the counter, and only then the
\* result joins all_iterations
SupContinue ==
    /\ pc = "sup_decide"
    /\ ~(scores[1] >= supreme_target_score /\ response.status = "DONE")
    /\ prompt' = [kind |-> "continue", low |-> NoScores, shown |-> NoScores,
                  overall |-> scores[1]]
    /\ iteration' = iteration + 1
    /\ all_iterations' = Append(all_iterations, response)
    /\ pc' = "sup_while"
    /\ UNCHANGED <<response, scores, files, summary, requests, outcome, error,
                   SupKept>>

\* lines 273-283
SupSummary ==
    /\ pc = "sup_summary"
    /\ summary' =
         Append(summary,
                [ target_score         |-> supreme_target_score,
                  iterations_completed |-> iteration - 1,
                  final_score          |-> IF scores # NoScores
                                           THEN scores[1] ELSE 0,
                  achieved_target      |-> IF scores # NoScores
                                           THEN scores[1] >= supreme_target_score
                                           ELSE FALSE,
                  all_iterations       |-> all_iterations ])
    /\ pc' = "sup_finished"
    /\ UNCHANGED <<response, scores, iteration, all_iterations, prompt, files,
                   requests, outcome, error, SupKept>>

\* lines 286-313
SupFinished ==
    /\ pc = "sup_finished"
    /\ files' = Written(files, <<"FINISHED", 0>>,
                        [ final_score |-> scores, iterations |-> iteration - 1 ])
    /\ pc' = "sup_done"
    /\ UNCHANGED <<response, scores, iteration, all_iterations, prompt,
                   summary, requests, outcome, error, SupKept>>

SupNext ==
    \/ SupLoopEnter
    \/ SupLoopExit
    \/ SupChatRaises
    \/ SupNoJson
    \/ SupSave
    \/ SupSaveRaises
    \/ SupTargetAchieved
    \/ SupContinue
    \/ SupSummary
    \/ SupFinished

SpecSupreme == SupInit /\ [][SupNext]_vars

----------------------------------------------------------------------------
(* Properties *)

Terminal == {"TARGET_REACHED", "MAX_ITERATIONS_EXHAUSTED", "FAILED"}

\* main is past its loop, by the loop's own control flow
LoopLeft == pc \in {"after", "summary", "done"}

Reached(rec) == rec.overall_score >= target_score * Scale

\* C1: in a run where no call raises, the loop is left after at most
\* max_iterations passes: in TARGET_REACHED at the first pass whose total is at
\* least target_score, and else in MAX_ITERATIONS_EXHAUSTED after exactly
\* max_iterations passes; and every run leaves the loop.
C1_LoopTerminates ==
    /\ [](requests <= max_iterations /\ Len(all_iterations) <= requests)
    /\ [](LoopLeft /\ error = <<>> =>
            LET n == Len(all_iterations)
            IN  IF \E j \in 1..n : Reached(all_iterations[j])
                THEN /\ outcome = <<"TARGET_REACHED">>
                     /\ n <= max_iterations /\ requests = n
                     /\ \A j \in 1..(n - 1) : ~Reached(all_iterations[j])
                ELSE /\ outcome = <<"MAX_ITERATIONS_EXHAUSTED">>
                     /\ n = max_iterations /\ requests = max_iterations)
    /\ <>(pc \in {"done", "aborted"})

\* the target is reached at the last allowed pass, after passes below it
C1_Witness ==
    /\ pc = "done" /\ error = <<>>
    /\ outcome = <<"TARGET_REACHED">>
    /\ Len(all_iterations) = max_iterations

C3_ChatRaises ==
    /\ [][pc = "chat" /\ error' = <<"chat">> =>
            /\ outcome' = <<"FAILED">>
            /\ all_iterations' = all_iterations
            /\ files' = files]_vars
    /\ [](error # <<>> /\ error[1] = "chat" =>
            /\ outcome = <<"FAILED">>
            /\ Len(all_iterations) = iteration - 1
            /\ requests = iteration
            /\ DOMAIN files = 1..(iteration - 1)
            /\ \A j \in 1..(iteration - 1) :
                 all_iterations[j].iteration = j /\ files[j] = all_iterations[j])
    /\ [][error # <<>> /\ error[1] = "chat" =>
            requests' = requests /\ all_iterations' = all_iterations]_vars

\* the call of the third pass raises
C3_Witness ==
    /\ pc = "done" /\ error = <<"chat">>
    /\ iteration = 3 /\ Len(all_iterations) = 2


(* Properties of extract_scores, stated on the layout the text was written from *)

Percent(v) == v \in 0..100

Zeros == [k \in Cats |-> 0]

\* the sum over the keys of score times weight, in hundredths
Weighted(sc) ==
    sc[1] * 15 + sc[2] * 20 + sc[3] * 25 + sc[4] * 20 + sc[5] * 15 + sc[6] * 5

WrittenVals(lay) == [k \in Cats |-> lay.cells[k].val]

\* a "SCORES:" header, a "<key>: <value>" line for every key with the value in
\* [0,100], and a "WEIGHTED TOTAL: t" line with t in [0,100]
WellFormedBlock(lay) ==
    /\ lay.hdr /\ lay.extra = NoExtra
    /\ \A k \in Cats : /\ lay.cells[k].form = "exact" /\ lay.cells[k].sep = ":"
                       /\ Percent(lay.cells[k].val)
    /\ Len(lay.tot) = 1 /\ lay.tot[1].syn = 1 /\ Percent(lay.tot[1].val)

\* C4: from a well-formed block extract_scores returns the values written for
\* the keys and the total written, also a total of 0 or 100.
C4_WellFormedRecovered ==
    xpc = "done" /\ WellFormedBlock(given) =>
        scores = WrittenVals(given) /\ total = given.tot[1].val * Scale

\* C5: the total extract_scores returns is in [0,100], whatever the text, so
\* no total outside [0,100] is recorded by main or ends its loop.
C5_TotalInRange ==
    /\ xpc = "done" => total \in 0..(100 * Scale)
    /\ outcome = <<"TARGET_REACHED">> => overall \in 0..(100 * Scale)

\* one line with a number for every key, in any form, and no total line
EveryKeyScored(lay) ==
    /\ lay.extra = NoExtra /\ lay.tot = <<>>
    /\ \A k \in Cats : /\ lay.cells[k].sep \in {":", "-", "=", "rev"}
                       /\ Percent(lay.cells[k].val)

\* C6: a text with a score in [0,100] for every key and no total line gives
\* as total the sum of the scores written times the weights.
C6_WrittenSum ==
    xpc = "done" /\ EveryKeyScored(given) => total = Weighted(WrittenVals(given))

\* C7: when no total was found or some key has no value, the total returned is
\* the sum of (value found or 0) times weight, whatever total the text
\* reports, unless that sum is 0, and then it is what the total scan left;
\* with some but not all keys found and one of them nonzero, it is above 0.
C7_Recomputed ==
    xpc = "done" =>
        /\ (given.tot = <<>> \/ DOMAIN found # Cats =>
              total = IF Weighted(scores) > 0 THEN Weighted(scores) ELSE scanned)
        /\ (DOMAIN found # Cats /\ (\E k \in DOMAIN found : found[k] > 0) =>
              total > 0)

\* some keys only and a reported total: the total returned is the recomputed one
C7_Witness ==
    /\ xpc = "done" /\ DOMAIN found \notin {{}, Cats}
    /\ scanned > 0 /\ total > 0 /\ total # scanned

\* a block that lists every key on a line of its own
EveryKeyListed(lay) ==
    /\ lay.hdr /\ lay.extra = NoExtra
    /\ \A k \in Cats : lay.cells[k].form = "exact" /\ lay.cells[k].sep = ":"

\* C8: in such a block a value of exactly 0 or 100 is recorded as it is, and a
\* value of 101 or a negative one is recorded as 0, whatever the other lines.
C8_Boundary ==
    xpc = "done" /\ EveryKeyListed(given) =>
        \A k \in Cats :
            LET v == given.cells[k].val
            IN  /\ (v \in {0, 100} => scores[k] = v)
                /\ (v = 101 \/ v < 0 => scores[k] = 0)

\* no key is followed or preceded by a number, no total synonym is followed by
\* one: no category pattern and no total pattern matches
NothingToMatch(lay) ==
    /\ lay.extra = NoExtra
    /\ \A k \in Cats : lay.cells[k].sep \in {"none", "words"}
    /\ \A i \in DOMAIN lay.tot : lay.tot[i].val < 0

\* C9: a text in which no pattern matches gives 0 for every key and total 0;
\* main takes such a pass as below the target and goes on with the loop.
C9_NoPatternAllZero ==
    /\ [](xpc = "done" /\ NothingToMatch(given) => scores = Zeros /\ total = 0)
    /\ [][pc = "chat" /\ pc' = "save" /\ NothingToMatch(given') =>
            /\ scores' = Zeros /\ overall' = 0
            /\ all_iterations'[Len(all_iterations')].scores = Zeros
            /\ all_iterations'[Len(all_iterations')].overall_score = 0]_vars
    /\ [][pc = "decide" /\ NothingToMatch(given) /\ pc' # "aborted" =>
            pc' = "while" /\ iteration' = iteration + 1 /\ outcome' = <<>>]_vars

\* main has gone on after a pass whose reply had nothing to match
C9_Witness ==
    /\ pc = "while" /\ iteration = 2 /\ NothingToMatch(given)
    /\ all_iterations[1].scores = Zeros /\ overall = 0

\* C10: every record of the history has a score for exactly the rubric keys,
\* each in [0,100].
C10_RecordScores ==
    \A j \in 1..Len(all_iterations) :
        /\ DOMAIN all_iterations[j].scores = Cats
        /\ \A k \in Cats : Percent(all_iterations[j].scores[k])

\* the history holds a record whose reply scored some keys only, and one whose
\* reply wrote 101 for a key
C10_Witness ==
    /\ Len(all_iterations) = 2
    /\ all_iterations[1].scores[2] = 0 /\ all_iterations[1].scores[1] = 90
    /\ \E k \in Cats : given.cells[k].val = 101

\* C11: the prompt of a request of pass k+1 is built from the scores extracted
\* in pass k: the "revise" prompt, listing exactly the keys scored below 90
\* with their scores, when there is such a key, and the "refine" prompt when
\* every score is at least 90; a score of exactly 90 is not listed.
C11_PromptFromLastPass ==
    pc = "chat" /\ iteration > 1 =>
        LET last == all_iterations[iteration - 1]
            weak == {k \in Cats : last.scores[k] < 90}
        IN  /\ Len(all_iterations) = iteration - 1
            /\ last.scores = scores
            /\ ~Reached(last)
            /\ (weak # {} =>
                  /\ prompt.kind = "revise"
                  /\ DOMAIN prompt.low = weak
                  /\ \A k \in weak : prompt.low[k] = last.scores[k]
                  /\ prompt.shown = last.scores)
            /\ (prompt.kind = "refine" <=> \A k \in Cats : last.scores[k] >= 90)
            /\ prompt.overall = last.overall_score

\* the third request carries the "refine" prompt of a second pass whose lowest
\* score is exactly 90, after a first pass with scores below 90
C11_Witness ==
    /\ pc = "chat" /\ iteration = 3 /\ prompt.kind = "refine"
    /\ \E k \in Cats : all_iterations[1].scores[k] < 90
    /\ \E k \in Cats : all_iterations[2].scores[k] = 90

\* C12: the i-th record of the history carries iteration number i; the history
\* only grows, by the one record of the pass whose reply has just been
\* extracted, and the records it holds stay as they are; between passes it
\* holds one record per pass made.
C12_HistoryOrdered ==
    /\ [](\A j \in 1..Len(all_iterations) : all_iterations[j].iteration = j)
    /\ [](pc = "while" =>
            Len(all_iterations) = iteration - 1 /\ requests = iteration - 1)
    /\ [][/\ Len(all_iterations') >= Len(all_iterations)
          /\ SubSeq(all_iterations', 1, Len(all_iterations)) = all_iterations]_vars
    /\ [][all_iterations' # all_iterations =>
            /\ pc = "chat" /\ pc' = "save"
            /\ Len(all_iterations') = Len(all_iterations) + 1]_vars

\* a run of max_iterations passes has ended
C12_Witness ==
    /\ pc = "done" /\ Len(all_iterations) = max_iterations
    /\ all_iterations[max_iterations].iteration = max_iterations

\* C13: a run in which an exception or a keyboard interrupt occurred, other
\* than a failure of the summary's own write, ends with one summary written,
\* holding the history accumulated so far.
C13_SummaryAfterAbort ==
    /\ pc \in {"done", "aborted"}
    /\ error # <<>>
    /\ \A j \in 1..Len(error) : error[j] # "summary"
    => Len(summary) = 1 /\ summary[1].iterations = all_iterations

\* C14: no summary is written while the loop runs; a run whose loop ended in
\* TARGET_REACHED, in MAX_ITERATIONS_EXHAUSTED or in FAILED after the
\* completion call raised has, once main is through, exactly one summary,
\* holding the last total, the target, the number of passes made, whether the
\* target was reached, and the history.
C14_SummaryOnce ==
    /\ (InLoop \/ pc \in {"after", "summary"} => summary = <<>>)
    /\ (pc = "done" /\ error \in {<<>>, <<"chat">>} =>
          /\ Len(summary) = 1
          /\ summary[1].final_score = overall
          /\ summary[1].target_score = target_score
          /\ summary[1].achieved_target = (outcome = <<"TARGET_REACHED">>)
          /\ summary[1].iterations = all_iterations
          /\ summary[1].total_iterations = Len(all_iterations))

\* the requests issued that have neither been answered nor raised
Outstanding ==
    requests - Len(all_iterations)
             - Cardinality({j \in 1..Len(error) : error[j] = "chat"})

\* C15: at most one completion request is outstanding; a request is issued
\* only when a pass starts, one per pass and with none outstanding, so the
\* requests issued are as many as the passes started, at most max_iterations.
C15_OneRequestPerPass ==
    /\ [](Outstanding \in {0, 1})
    /\ [](InLoop => (Outstanding = 1 <=> pc = "chat"))
    /\ [](requests <= max_iterations)
    /\ [](InLoop => requests = IF pc = "while" THEN iteration - 1 ELSE iteration)
    /\ [][requests' # requests =>
            /\ pc = "while" /\ pc' = "chat"
            /\ Outstanding = 0 /\ requests' = requests + 1]_vars
    /\ [][pc = "while" /\ pc' = "chat" => requests' = requests + 1]_vars

\* the request of the last allowed pass is outstanding
C15_Witness ==
    pc = "chat" /\ requests = max_iterations /\ Outstanding = 1

\* C16: a file that a pass has written in SAVE_DIR is never written again with
\* another content: every pass saves under a name no other pass uses.
C16_NoOverwrite ==
    [][\A n \in DOMAIN files : n \in DOMAIN files' /\ files'[n] = files[n]]_vars

\* C17: in a text that mentions every key at most once, a key written with a
\* value in [0,100] in one of the forms "<key>: n", "<key> - n", "<key> = n",
\* "n: <key>", the key spelled in any of its variations, gets that value,
\* whatever the forms of the other lines.
C17_EveryFormRecorded ==
    xpc = "done" /\ given.extra = NoExtra =>
        \A k \in Cats :
            given.cells[k].sep \in {":", "-", "=", "rev"}
              /\ Percent(given.cells[k].val)
            => scores[k] = given.cells[k].val

\* C18: what a call of extract_scores returns is fixed by its text alone,
\* whatever calls were made before it, so two calls on one text return the
\* same scores and the same total; a call starts from empty scores and total 0.
C18_SameTextSameResult ==
    /\ [][xpc = "totalled" /\ xpc' = "done" =>
            /\ scores' = extract_scores(response).scores
            /\ total' = extract_scores(response).total]_vars
    /\ [](xpc = "input" => found = NoScores /\ scanned = 0)

\* a call on a reply with nothing to match is about to return, after a call
\* that returned scores above 0
C18_Witness ==
    /\ xpc = "totalled" /\ NothingToMatch(given)
    /\ DOMAIN scores = Cats /\ scores # Zeros

\* the (key variation, pattern) pairs, and their order: variations outer,
\* patterns inner
Pairs == (1..4) \X (1..4)

PairBefore(a, b) == a[1] < b[1] \/ (a[1] = b[1] /\ a[2] < b[2])

\* C19: a key gets the match of the first pair, variations outer and patterns
\* inner, whose match is in [0,100]; matches outside [0,100] of earlier pairs
\* and matches of later pairs do not count; a key with no such pair gets no
\* value.
C19_FirstPairInRange ==
    xpc = "done" =>
        LET st == ScoreText(response)
        IN  \A k \in Cats :
              IF k \in DOMAIN found
              THEN \E pr \in Pairs :
                     /\ InRange(Search(st, k, pr[1], pr[2]))
                     /\ found[k] = Search(st, k, pr[1], pr[2])
                     /\ \A q \in Pairs :
                          PairBefore(q, pr) => ~InRange(Search(st, k, q[1], q[2]))
              ELSE \A pr \in Pairs : ~InRange(Search(st, k, pr[1], pr[2]))

\* a key is written twice, in two spellings: the later line, in the exact
\* spelling, matches the second pattern of the first variation and wins over
\* the earlier line, which matches the first pattern of the third
C19_Witness ==
    /\ xpc = "done"
    /\ given.cells[2] = Line("and", ":", 82)
    /\ given.extra = [k |-> 2, place |-> "body", line |-> Line("exact", "-", 55)]
    /\ scores[2] = 55

\* C20: with a header, a key written only before the header or only after
\* the total line gets no score; without a header a "<key>: n" line anywhere
\* in the text is scored; and the total of the one total line is found, with
\* a header or without.
C20_BodyOnly ==
    xpc = "done" =>
        /\ (/\ given.hdr
            /\ given.extra.place \in {"pre", "post"}
            /\ given.tot # <<>>
            /\ given.cells[given.extra.k].sep = "none"
            => given.extra.k \notin DOMAIN found /\ scores[given.extra.k] = 0)
        /\ (~given.hdr =>
              \A k \in Cats :
                  given.cells[k].sep = ":" /\ Percent(given.cells[k].val)
                  => scores[k] = given.cells[k].val)
        /\ (Len(given.tot) = 1 /\ Percent(given.tot[1].val) =>
              scanned = given.tot[1].val * Scale)

\* the records of the history are all persisted, each under its number
AllPersisted ==
    \A j \in 1..Len(all_iterations) :
        j \in DOMAIN files /\ files[j] = all_iterations[j]

\* C21: when main decides whether to stop, the record of the pass is in the
\* history and persisted; so it is in TARGET_REACHED and in
\* MAX_ITERATIONS_EXHAUSTED; and a completion request is issued only when
\* every record of the history is persisted.
C21_PersistedBeforeDecision ==
    /\ [](pc = "decide" => Len(all_iterations) = iteration /\ AllPersisted)
    /\ [](outcome \in {<<"TARGET_REACHED">>, <<"MAX_ITERATIONS_EXHAUSTED">>} =>
            Len(all_iterations) >= 1 /\ AllPersisted)
    /\ [][requests' # requests => AllPersisted]_vars

\* the target was reached in the second pass
C21_Witness ==
    /\ pc = "done" /\ outcome = <<"TARGET_REACHED">>
    /\ Len(all_iterations) = 2 /\ files[2] = all_iterations[2]

\* C22: when the write of a pass's record raises, the error is printed, main
\* leaves the loop in FAILED, and from then on no completion request is made
\* and no further pass is counted.
C22_WriteFailureReported ==
    /\ [][pc = "save" /\ error' = Append(error, "save") =>
            /\ "error in iteration" \in printed'
            /\ outcome' = <<"FAILED">>
            /\ pc' = "after"]_vars
    /\ [](error # <<>> /\ error[1] = "save" =>
            /\ "error in iteration" \in printed
            /\ outcome = <<"FAILED">>
            /\ iteration \notin DOMAIN files)
    /\ [][error # <<>> /\ error[1] = "save" =>
            requests' = requests /\ iteration' = iteration /\ files' = files]_vars

\* the write of the second pass raised and main is through
C22_Witness ==
    /\ pc = "done" /\ error = <<"save">>
    /\ iteration = 2 /\ requests = 2 /\ DOMAIN files = {1}

\* C23: "maximum iterations reached" is printed only after max_iterations
\* passes without reaching the target, not after a run that FAILED; "target
\* reached" is printed only when the last total is at least target_score.
C23_StatusMatchesOutcome ==
    /\ ("maximum iterations reached" \in printed =>
          /\ outcome = <<"MAX_ITERATIONS_EXHAUSTED">>
          /\ Len(all_iterations) = max_iterations)
    /\ ("target reached" \in printed =>
          /\ outcome = <<"TARGET_REACHED">>
          /\ overall >= target_score * Scale)

\* an entry of the engine's history with no category below the threshold
EngMet(entry) == \A k \in Cats : entry.scores[k] >= threshold

\* C24: improve_until_threshold ends, after at most max_iterations passes; it
\* has one history entry per pass; it leaves the loop at the first pass whose
\* evaluation has no category below the threshold, without a call of
\* improve_report in that pass, and has called improve_report once in every
\* other pass.
C24_EngineTerminates ==
    /\ [](iteration <= max_iterations)
    /\ [](pc \in {"eng_while", "eng_check", "eng_final", "eng_done"} =>
            /\ Len(all_iterations) = iteration
            /\ \A j \in 1..iteration : all_iterations[j].iteration = j)
    /\ [](pc = "eng_while" =>
            requests = iteration /\ \A j \in 1..iteration : ~EngMet(all_iterations[j]))
    /\ [](pc \in {"eng_final", "eng_done"} =>
            IF \E j \in 1..iteration : EngMet(all_iterations[j])
            THEN /\ outcome = <<"ALL_MET">>
                 /\ EngMet(all_iterations[iteration])
                 /\ \A j \in 1..(iteration - 1) : ~EngMet(all_iterations[j])
                 /\ requests = iteration - 1
            ELSE /\ outcome = <<"MAX_ITERATIONS_EXHAUSTED">>
                 /\ iteration = max_iterations
                 /\ requests = max_iterations)
    /\ <>(pc \in {"eng_done", "eng_raised"})

\* the loop was left at the second pass, whose scores are exactly at the
\* threshold
C24_Witness ==
    /\ pc = "eng_done" /\ outcome = <<"ALL_MET">>
    /\ iteration = 2 /\ requests = 1
    /\ \A k \in Cats : all_iterations[2].scores[k] = threshold

\* C25: a summary written by main counts as many iterations as it holds
\* records, however the loop was left.
C25_CountEqualsRecords ==
    \A i \in 1..Len(summary) :
        summary[i].total_iterations = Len(summary[i].iterations)

\* C26: the result of improve_until_threshold has converged true exactly when
\* the loop was left because an evaluation had no category below the
\* threshold, at whatever pass.
C26_ConvergedIffAllMet ==
    pc = "eng_done" =>
        (summary[1].converged <=> outcome = <<"ALL_MET">>)

\* C27: a run of run_iteration_with_initial_script.main that no keyboard
\* interrupt and no failure to write summary.json ended has written
\* summary.json and, after it, the text of FINISHED.txt, however its loop was
\* left.
C27_MarkerAfterSummary ==
    (pc \in {"ris_done", "ris_fatal"} /\ \A i \in 1..Len(error) :
                                            error[i] \notin {"interrupt", "summary"})
        => /\ Len(summary) = 1
           /\ <<"FINISHED", 0>> \in DOMAIN files
           /\ files[<<"FINISHED", 0>>] # <<>>

\* C28: when improve_until_threshold left its loop because every category
\* met the threshold, the result it returns has passed true and a
\* final_weighted_total of at least the threshold.
C28_AllMetPasses ==
    (pc = "eng_done" /\ outcome = <<"ALL_MET">>)
        => /\ summary[1].passed
           /\ summary[1].final_weighted_total >= threshold * Scale

\* the numbers N of the iteration_N.json files of SAVE_DIR
PersistedPasses == {n \in 1..(max_iterations + 1) : <<"iteration", n>> \in DOMAIN files}

\* C29: the all_iterations list of the summary supreme_builder.main writes
\* holds, in pass order, the result of every pass saved as iteration_N.json,
\* the pass that achieved the target included.
C29_EveryPersistedPassListed ==
    \A i \in 1..Len(summary) :
        /\ Len(summary[i].all_iterations) = Cardinality(PersistedPasses)
        /\ \A n \in PersistedPasses :
             /\ n <= Len(summary[i].all_iterations)
             /\ summary[i].all_iterations[n] = files[<<"iteration", n>>]

\* the overall_score of the last record of a list of records, 0 for the
\* empty list
LastOverall(its) == IF its = <<>> THEN 0 ELSE its[Len(its)].overall_score

\* C30: in the summary main writes, final_score is the overall_score of the
\* last record of its iterations list, 0 when the list is empty, and
\* achieved_target is true exactly when that value is at least target_score.
C30_FinalScoreIsLastRecord ==
    \A i \in 1..Len(summary) :
        /\ summary[i].final_score = LastOverall(summary[i].iterations)
        /\ summary[i].achieved_target
             <=> LastOverall(summary[i].iterations) >= target_score * Scale

\* a summary of two passes with different totals, the second reaching the
\* target
C30_Witness ==
    /\ pc = "done"
    /\ Len(summary) = 1
    /\ Len(summary[1].iterations) = 2
    /\ summary[1].iterations[1].overall_score
         # summary[1].iterations[2].overall_score
    /\ summary[1].achieved_target

====
